---- MODULE Spec2Model ----
(***************************************************************************)
(* Mariposa notes adapters for Open WebUI:                                 *)
(*   Filter.inlet (mariposa_filter.py) rewrites the last chat message,     *)
(*   Pipe.pipe    (mariposa_pipe.py)   answers a chat turn by itself.      *)
(*                                                                         *)
(* Text is modelled character by character: a Python str the user typed is *)
(* a sequence of one-character strings.  Text the adapters produce is a    *)
(* sequence of pieces: a template literal of the source is one piece, an   *)
(* interpolated field of a note is one piece, and interpolated user text   *)
(* contributes its characters.  Glyphs outside ASCII in the source's       *)
(* templates are written {middot}, {emdash}, {warn} etc., and a backquote {bt}.   *)
(***************************************************************************)
EXTENDS Naturals, Sequences, FiniteSets, TLC

VARIABLES
    adapter,   \* the operation that completed in this chat turn: "none" until
               \* one has, then "inlet", "outlet", "pipe", or "api_post",
               \* "api_delete" for a direct call of Filter's helper
    valves,    \* the Valves of the adapter instance that ran
    request,   \* the chat payload as it was handed to the handler
    sink,      \* TRUE iff an __event_emitter__ was supplied (inlet only)
    svc,       \* the answers the notes service gave, in call order
    outcome,   \* what the handler did: the payload object as it is now, the
               \* returned value, the raised exception, the trace so far
    pending,   \* the content a suspended inlet will write: its locals md and
               \* slug or query, kept across the second await
    inletPc,   \* where inlet stands: "idle" (not running), "await_start"
               \* (suspended in the sink after the start status),
               \* "await_end" (suspended in the sink after the end status)
    peer,      \* where a second inlet invocation on the same event loop
               \* stands: "idle", "await_start", "await_end", "done"
    log        \* the notifications and requests of both invocations, in the
               \* order the event loop and the service saw them

vars == <<adapter, valves, request, sink, svc, outcome, inletPc, pending, peer, log>>

----------------------------------------------------------------------------
(* Characters and Python string primitives *)

\* The alphabet of the model: the characters up to U+00FF, written as
\* themselves, and the characters beyond that are named here, {uXXXX} being
\* the character of that code point.
Uppers == <<"A","B","C","D","E","F","G","H","I","J","K","L","M",
            "N","O","P","Q","R","S","T","U","V","W","X","Y","Z",
            "À","Á","Â","Ã","Ä","Å","Æ","Ç","È","É","Ê","Ë","Ì","Í","Î","Ï",
            "Ð","Ñ","Ò","Ó","Ô","Õ","Ö","Ø","Ù","Ú","Û","Ü","Ý","Þ",
            "{u212A}">>
Lowers == <<"a","b","c","d","e","f","g","h","i","j","k","l","m",
            "n","o","p","q","r","s","t","u","v","w","x","y","z",
            "à","á","â","ã","ä","å","æ","ç","è","é","ê","ë","ì","í","î","ï",
            "ð","ñ","ò","ó","ô","õ","ö","ø","ù","ú","û","ü","ý","þ",
            "k">>

\* str.lower() on one character
LowerChar(c) ==
    IF \E i \in 1..Len(Uppers) : Uppers[i] = c
    THEN Lowers[CHOOSE i \in 1..Len(Uppers) : Uppers[i] = c]
    ELSE c

\* str.lower()
Lower(s) == [i \in 1..Len(s) |-> LowerChar(s[i])]

\* whitespace of str.strip() and of the regex class \s (str.isspace):
\* U+0009-000D, U+001C-001F, U+0020, U+0085, U+00A0 and, beyond U+00FF,
\* U+1680, U+2000-200A, U+2028, U+2029, U+202F, U+205F, U+3000
IsSpace(c) ==
    c \in {" ", "\t", "\n", "\r", "\f", "", "", "", "", "",
           "", " ",
           "{u1680}", "{u2000}", "{u2001}", "{u2002}", "{u2003}", "{u2004}",
           "{u2005}", "{u2006}", "{u2007}", "{u2008}", "{u2009}", "{u200A}",
           "{u2028}", "{u2029}", "{u202F}", "{u205F}", "{u3000}"}

\* the regex class \d of a str pattern: the decimal digits (category Nd);
\* none lies in U+0080-00FF, and beyond that the alphabet has the
\* Arabic-Indic digits U+0660-0669
IsDigit(c) ==
    c \in {"0","1","2","3","4","5","6","7","8","9",
           "{u0660}", "{u0661}", "{u0662}", "{u0663}", "{u0664}",
           "{u0665}", "{u0666}", "{u0667}", "{u0668}", "{u0669}"}

\* str.strip()
Strip(s) ==
    LET keep == {i \in 1..Len(s) : ~IsSpace(s[i])}
    IN  IF keep = {} THEN <<>>
        ELSE LET lo == CHOOSE i \in keep : \A j \in keep : i <= j
                 hi == CHOOSE i \in keep : \A j \in keep : j <= i
             IN  SubSeq(s, lo, hi)

\* str.startswith(p)
StartsWith(s, p) == Len(s) >= Len(p) /\ SubSeq(s, 1, Len(p)) = p

\* a lower-case letter pc of a pattern matches the character c: as it is
\* written, or with re.IGNORECASE (ic) also its capital and, for "s" and "k",
\* the long s U+017F and the Kelvin sign U+212A
CharMatches(c, pc, ic) ==
    \/ c = pc
    \/ ic /\ (LowerChar(c) = pc \/ (pc = "s" /\ c = "{u017F}"))

\* literal p (in lower case) matched at position i of s
LitAt(s, i, p, ic) ==
    /\ i + Len(p) - 1 <= Len(s)
    /\ \A k \in 1..Len(p) : CharMatches(s[i + k - 1], p[k], ic)

\* greedy run from position i: the first position at or after i whose
\* character is not in the class (Len(s)+1 when the run reaches the end)
SpaceRunEnd(s, i) ==
    LET stop == {j \in i..Len(s) : ~IsSpace(s[j])}
    IN  IF stop = {} THEN Len(s) + 1 ELSE CHOOSE j \in stop : \A k \in stop : j <= k

DigitRunEnd(s, i) ==
    LET stop == {j \in i..Len(s) : ~IsDigit(s[j])}
    IN  IF stop = {} THEN Len(s) + 1 ELSE CHOOSE j \in stop : \A k \in stop : j <= k

NoMatch == [ok |-> FALSE, arg |-> <<>>, end |-> 0]

\* the regex  note-\d+  matched at position i: the slug and the position after
SlugAt(s, i, ic) ==
    IF LitAt(s, i, <<"n","o","t","e","-">>, ic) /\ DigitRunEnd(s, i + 5) > i + 5
    THEN [ok |-> TRUE, arg |-> SubSeq(s, i, DigitRunEnd(s, i + 5) - 1),
          end |-> DigitRunEnd(s, i + 5)]
    ELSE NoMatch

\* the regex prefix  /?<verb>  matched at the start of s and followed by
\* whitespace: the position of that whitespace, or 0
VerbStart(s, verb, ic) ==
    LET p == IF Len(s) >= 1 /\ s[1] = "/" THEN 2 ELSE 1
    IN  IF LitAt(s, p, verb, ic) /\ SpaceRunEnd(s, p + Len(verb)) > p + Len(verb)
        THEN p + Len(verb)
        ELSE 0

\* the regex prefix  /?<verb>\s+  matched greedily at the start of s: the
\* position after it, or 0
VerbEnd(s, verb, ic) ==
    IF VerbStart(s, verb, ic) = 0 THEN 0 ELSE SpaceRunEnd(s, VerbStart(s, verb, ic))

\* re.match(r"/?<verb>\s+(note-\d+)", s): no anchor at the end
VerbSlugPrefix(s, verb, ic) ==
    IF VerbEnd(s, verb, ic) = 0 THEN NoMatch ELSE SlugAt(s, VerbEnd(s, verb, ic), ic)

\* re.match(r"^/?<verb>\s+(note-\d+)$", s), without re.IGNORECASE; $ is
\* the end of the text or the place before a line break that ends the text
VerbSlugFull(s, verb) ==
    LET m == VerbSlugPrefix(s, verb, FALSE)
    IN  IF m.ok /\ (m.end = Len(s) + 1 \/ (m.end = Len(s) /\ s[Len(s)] = "\n"))
        THEN m ELSE NoMatch

\* re.findall(r"note-\d+", s, re.IGNORECASE) from position i:
\* left to right, non-overlapping, each occurrence as written
RECURSIVE FindAllSlugs(_, _)
FindAllSlugs(s, i) ==
    IF i > Len(s) THEN <<>>
    ELSE IF SlugAt(s, i, TRUE).ok
         THEN <<SlugAt(s, i, TRUE).arg>> \o FindAllSlugs(s, SlugAt(s, i, TRUE).end)
         ELSE FindAllSlugs(s, i + 1)

\* set(...) of a list
ToSet(q) == {q[i] : i \in 1..Len(q)}

\* list(set): the orders a Python set of strings can be iterated in
Orders(S) ==
    {q \in [1..Cardinality(S) -> S] : \A x \in S : \E i \in 1..Cardinality(S) : q[i] = x}

----------------------------------------------------------------------------
(* Values parsed from the notes service's JSON (r.json()) *)

\* Python None (a JSON null body)
PyNone == [t |-> "none"]

\* an element of a JSON array: a string or a number, by its text.  A number
\* is also what a body or a list item can be in place of an object.
JStr(text) == [t |-> "str", v |-> text]
JNum(text) == [t |-> "num", v |-> text]

\* a body that is a JSON string (by its characters) or a JSON boolean
JsonString(chars) == [t |-> "string", s |-> chars]
PyBool(b) == [t |-> "bool", b |-> b]

\* a JSON array body with these elements (a list: it has no .get and no
\* string index)
PyList(items) == [t |-> "list", items |-> items]

\* a JSON object: the keys it has and their values; a key it lacks keeps
\* the neutral value here so that equal dicts are equal records
\* tags_t tells what the value of "tags" is: "list" (a list of strings),
\* "null" (None, tags is then <<>>) or "nums" (a list of numbers, tags then
\* holds their texts)
EmptyDict ==
    [t |-> "dict", has |-> {}, title |-> "", slug |-> "", category |-> "",
     tags |-> <<>>, tags_t |-> "list", content |-> "", updatedAt |-> "",
     notes |-> <<>>, categories |-> <<>>, error |-> ""]

\* the body of a 200 answer that is not JSON at all
NotJson == [t |-> "invalid"]

\* bool(v); numbers are written as integers
Truthy(v) ==
    CASE v.t = "none" -> FALSE
      [] v.t = "list" -> v.items # <<>>
      [] v.t = "dict" -> v.has # {}
      [] v.t = "string" -> v.s # <<>>
      [] v.t = "str" -> v.v # ""
      [] v.t = "num" -> v.v # "0"
      [] v.t = "bool" -> v.b

\* what note.get("tags", []) is: a list of strings, None, or a list of numbers
TagsKind(note) == IF "tags" \in note.has THEN note.tags_t ELSE "list"

\* the first exception of a run of steps, "none" when none raises
RECURSIVE FirstExc(_)
FirstExc(q) ==
    IF q = <<>> THEN "none"
    ELSE IF q[1] # "none" THEN q[1] ELSE FirstExc(Tail(q))

\* d.get(k, default)
Get(d, k, default) == IF k \in d.has THEN d[k] ELSE default

\* f"{d.get(k)}": a missing key formats as the text None
FmtGet(d, k) == IF k \in d.has THEN d[k] ELSE "None"

\* sep.join(f"{pre}{x}{post}" for x in q), as one string
RECURSIVE JoinWrapped(_, _, _, _)
JoinWrapped(q, sep, pre, post) ==
    IF q = <<>> THEN ""
    ELSE IF Len(q) = 1 THEN pre \o q[1] \o post
    ELSE pre \o q[1] \o post \o sep \o JoinWrapped(Tail(q), sep, pre, post)

\* sep.join(parts) where every part is a sequence of pieces
RECURSIVE JoinPieces(_, _)
JoinPieces(parts, sep) ==
    IF parts = <<>> THEN <<>>
    ELSE IF Len(parts) = 1 THEN parts[1]
    ELSE parts[1] \o <<sep>> \o JoinPieces(Tail(parts), sep)

----------------------------------------------------------------------------
(* What the notes service can answer to one request *)

\* requests raised (connection refused, timeout after 5 s)
TransportError == [k |-> "transport", code |-> 0, body |-> NotJson]

Http(code, body) == [k |-> "http", code |-> code, body |-> body]

\* r.raise_for_status() raises for 4xx and 5xx
RaisesForStatus(r) == r.code >= 400 /\ r.code < 600

----------------------------------------------------------------------------
(* Filter: API helpers (mariposa_filter.py) *)

Ok(v) == [exc |-> "none", val |-> v]
Exc(e) == [exc |-> e, val |-> <<>>]

\* Filter.api_get: None on any exception, else r.json()
FilterApiGet(r) ==
    IF r.k = "transport" THEN PyNone
    ELSE IF RaisesForStatus(r) THEN PyNone
    ELSE IF r.body.t = "invalid" THEN PyNone
    ELSE r.body

\* "data.get(key, []) if data else []" of fetch_notes / fetch_categories /
\* fetch_tags: outside api_get's try, so a truthy non-dict raises
FilterGetList(data, key) ==
    IF ~Truthy(data) THEN Ok(<<>>)
    ELSE IF data.t # "dict" THEN Exc("AttributeError")
    ELSE Ok(Get(data, key, <<>>))

FilterFetchNotes(r) == FilterGetList(FilterApiGet(r), "notes")
FilterFetchCategories(r) == FilterGetList(FilterApiGet(r), "categories")
FilterFetchTags(r) == FilterGetList(FilterApiGet(r), "tags")

\* Filter.api_post (lines 44-50) and Filter.api_delete (lines 52-57): the
\* value returned for the answer r.  No line of Filter calls either of them.
FilterApiPost(r) ==
    IF r.k = "transport" THEN PyNone
    ELSE IF RaisesForStatus(r) THEN PyNone
    ELSE IF r.body.t = "invalid" THEN PyNone
    ELSE r.body
FilterApiDelete(r) == r.k = "http" /\ r.code = 204

\* the endpoint fetch_notes builds from params
NotesEndpoint(query) ==
    IF query = <<>> THEN <<"/api/notes">> ELSE <<"/api/notes?", "search", "=">> \o query

NoteEndpoint(slug) == <<"/api/notes/">> \o slug

----------------------------------------------------------------------------
(* Filter: Markdown rendering *)

\* Filter.render_note_md(note, compact)
RenderNoteMd(note, compact) ==
    LET title == Get(note, "title", "Untitled")
        slug == Get(note, "slug", "")
        category == Get(note, "category", "uncategorized")
        tags == Get(note, "tags", <<>>)
        content == Get(note, "content", "")
        updated == Get(note, "updatedAt", "")
        tags_str == IF tags # <<>> THEN JoinWrapped(tags, ", ", "{bt}", "{bt}") ELSE "_no tags_"
    IN  IF compact
        THEN <<"**", title, "** (", slug, ") {emdash} _", category, "_ {middot} ",
               ToString(Len(tags)), " tags">>
        ELSE
        <<"### ", title, "\n\n**Category:** ", category, " | **Tags:** ", tags_str,
          "  \n**Slug:** {bt}", slug, "{bt} | **Updated:** ", updated, "\n\n---\n\n",
          IF content # "" THEN content ELSE "_No content_",
          "\n\n---\n\n**Actions:** {bt}read ", slug, "{bt} {middot} {bt}edit ", slug,
          "{bt} {middot} {bt}delete ", slug, "{bt}\n">>

\* what render_note_md raises: len(tags) of the compact form on tags None
RenderNoteMdExc(note, compact) ==
    IF compact /\ TagsKind(note) = "null" THEN "TypeError" ELSE "none"

\* what one pass of the loop of render_notes_list_md raises: n.get on an
\* item that is no object (line 112), ', '.join(tags) on numbers (line 116)
NoteLineMdExc(n) ==
    IF n.t # "dict" THEN "AttributeError"
    ELSE IF Get(n, "tags", <<>>) # <<>> /\ TagsKind(n) = "nums" THEN "TypeError"
    ELSE "none"

\* what render_notes_list_md raises: the first pass that raises ends it
RenderNotesListMdExc(notes) == FirstExc([i \in 1..Len(notes) |-> NoteLineMdExc(notes[i])])

\* one line of Filter.render_notes_list_md
NoteLineMd(n) ==
    LET title == Get(n, "title", "Untitled")
        slug == Get(n, "slug", "")
        category == Get(n, "category", "")
        tags == Get(n, "tags", <<>>)
        tags_str == IF tags # <<>> THEN "[" \o JoinWrapped(tags, ", ", "", "") \o "]" ELSE ""
    IN  <<"- **", title, "** {bt}", slug, "{bt} {emdash} _", category, "_ ", tags_str>>

\* Filter.render_notes_list_md
RenderNotesListMd(notes) ==
    IF notes = <<>> THEN <<"{warn} **No notes found.** Use {bt}/new{bt} to create one.">>
    ELSE JoinPieces(<< <<"### Your Notes (", ToString(Len(notes)), " total)\n">> >>
                    \o [i \in 1..Len(notes) |-> NoteLineMd(notes[i])]
                    \o << <<"\n_Say {bt}read <slug>{bt} to view a note._">> >>, "\n")

\* Filter.render_error_md
RenderErrorMd(title, message) == <<"{warn} **", title, "**\n\n">> \o message

\* Filter.render_creation_form, given what the two fetches returned
RenderCreationForm(categories, tags) ==
    LET cats_str == IF categories # <<>> THEN JoinWrapped(categories, ", ", "{bt}", "{bt}")
                    ELSE "{bt}uncategorized{bt}"
        tags_str == IF tags # <<>> THEN JoinWrapped(tags, ", ", "{bt}", "{bt}") ELSE "_none yet_"
    IN  <<"I'd like to create a new note. Please help me fill in:\n\n{memo} **Title:** [required]  \n{folder} **Category:** ",
          cats_str, "  \n{label} **Tags:** ", tags_str,
          "  \n{page} **Content:** [what should the note contain?]\n\n_Guide me through each field one at a time._">>

\* what building a context part raises: ', '.join(note.get('tags', [])) on
\* None or on numbers (line 236)
ContextPartExc(note) ==
    IF TagsKind(note) = "null" \/ (TagsKind(note) = "nums" /\ note.tags # <<>>)
    THEN "TypeError" ELSE "none"

\* one context part of the auto-fetch block (inlet, lines 234-238)
ContextPart(note, slug) ==
    <<"**", FmtGet(note, "title"), "** ({bt}">> \o slug \o
    <<"{bt})\nCategory: ", FmtGet(note, "category"), " | Tags: ",
      JoinWrapped(Get(note, "tags", <<>>), ", ", "", ""),
      "\nContent: ", Get(note, "content", "(empty)"), "\n">>

----------------------------------------------------------------------------
(* The chat payload *)

\* a message's "content": text, a list of parts (multimodal), or no key
StrContent(chars) == [t |-> "str", s |-> chars]
PartsContent == [t |-> "parts", s |-> <<>>]
NoContent == [t |-> "absent", s |-> <<>>]

\* messages[-1]
LastMessage(body) == body.messages[Len(body.messages)]

\* messages[-1].get("content", "")
LastContent(body) ==
    IF LastMessage(body).content.t = "absent" THEN StrContent(<<>>)
    ELSE LastMessage(body).content

\* messages[-1]["content"] = text
SetLastContent(body, text) ==
    [body EXCEPT !.messages[Len(body.messages)].content = StrContent(text)]

----------------------------------------------------------------------------
(* What a handler invocation did *)

\* an outbound request and a status notification, as they appear in the trace
CallEv(method, endpoint) == [ev |-> "call", method |-> method, endpoint |-> endpoint]
StatusEv(description, done) == [ev |-> "status", description |-> description, done |-> done]

\* value: what a helper called by itself returned (None for a handler)
Returned(body, text, trace) ==
    [raised |-> "none", body |-> body, text |-> text, trace |-> trace,
     value |-> PyNone]
Raised(e, body, trace) ==
    [raised |-> e, body |-> body, text |-> <<>>, trace |-> trace,
     value |-> PyNone]

----------------------------------------------------------------------------
(* Filter.inlet: command matching *)

cNotes == <<"n","o","t","e","s">>
cRead == <<"r","e","a","d">>
cNew == <<"n","e","w">>
cSearch == <<"s","e","a","r","c","h">>

\* a bug that forgets .lower()
Normalize_NoLower(original_msg) == Strip(original_msg)

\* cmd = original_msg.lower().strip()  (filter line 177, pipe line 355)
Normalize(original_msg) == Strip(Lower(original_msg))

\* line 180: cmd == "/notes" or cmd == "notes" or cmd.startswith("/notes ")
FilterIsListCmd(cmd) ==
    \/ cmd = <<"/">> \o cNotes
    \/ cmd = cNotes
    \/ StartsWith(cmd, <<"/">> \o cNotes \o <<" ">>)

\* line 190: re.match(r"/?read\s+(note-\d+)", cmd, re.IGNORECASE)
FilterReadMatch(cmd) == VerbSlugPrefix(cmd, cRead, TRUE)

\* line 206: cmd == "/new" or cmd == "new"
FilterIsNewCmd(cmd) == cmd = <<"/">> \o cNew \/ cmd = cNew

\* the greedy group (.+) from position p: up to the end of the line
LineEnd(s, p) ==
    LET stop == {j \in p..Len(s) : s[j] = "\n"}
    IN  IF stop = {} THEN Len(s) + 1 ELSE CHOOSE j \in stop : \A k \in stop : j <= k

\* line 212: re.match(r"/?search\s+(.+)", cmd, re.IGNORECASE).  \s+ takes
\* the longest run of whitespace that leaves the group a character to start
\* with ("." matches no line break)
FilterSearchMatch(cmd) ==
    LET s0 == VerbStart(cmd, cSearch, TRUE)
        starts == {a \in (s0 + 1)..SpaceRunEnd(cmd, s0) : a <= Len(cmd) /\ cmd[a] # "\n"}
    IN  IF s0 = 0 \/ starts = {} THEN NoMatch
        ELSE LET a == CHOOSE x \in starts : \A y \in starts : y <= x
             IN  [ok |-> TRUE, arg |-> SubSeq(cmd, a, LineEnd(cmd, a) - 1),
                  end |-> LineEnd(cmd, a)]

\* the if-chain of lines 174-224: the first rule that matches
FilterClassify(v, cmd) ==
    IF ~v.enable_slash_commands THEN [cmd |-> "none", arg |-> <<>>]
    ELSE IF FilterIsListCmd(cmd) THEN [cmd |-> "list", arg |-> <<>>]
    ELSE IF FilterReadMatch(cmd).ok THEN [cmd |-> "read", arg |-> FilterReadMatch(cmd).arg]
    ELSE IF FilterIsNewCmd(cmd) THEN [cmd |-> "new", arg |-> <<>>]
    ELSE IF FilterSearchMatch(cmd).ok
         THEN [cmd |-> "search", arg |-> FilterSearchMatch(cmd).arg]
    ELSE [cmd |-> "none", arg |-> <<>>]

\* line 228: set(re.findall(r"note-\d+", original_msg, re.IGNORECASE))
MentionedSlugs(original_msg) == ToSet(FindAllSlugs(original_msg, 1))

----------------------------------------------------------------------------
(* Filter.inlet: the branches *)

\* emit_status: sends only when an emitter was supplied
EmitStatus(hasSink, description, done) ==
    IF hasSink THEN <<StatusEv(description, done)>> ELSE <<>>

\* lines 180-187
InletList(body, hasSink, r) ==
    LET t1 == EmitStatus(hasSink, <<"Fetching notes...">>, FALSE)
                \o <<CallEv("GET", NotesEndpoint(<<>>))>>
        notes == FilterFetchNotes(r)
    IN  IF notes.exc # "none" THEN Raised(notes.exc, body, t1)
        ELSE IF RenderNotesListMdExc(notes.val) # "none"
        THEN Raised(RenderNotesListMdExc(notes.val), body, t1)
        ELSE Returned(
               SetLastContent(body,
                   <<"[User requested note list. Display this to them:]\n\n">>
                   \o RenderNotesListMd(notes.val)),
               <<>>,
               t1 \o EmitStatus(hasSink, <<"Notes loaded">>, TRUE))

\* lines 190-203
InletRead(body, hasSink, slug, r) ==
    LET t1 == EmitStatus(hasSink, <<"Fetching ">> \o slug \o <<"...">>, FALSE)
                \o <<CallEv("GET", NoteEndpoint(slug))>>
        note == FilterApiGet(r)
    IN  IF Truthy(note)
        THEN IF note.t # "dict" THEN Raised("AttributeError", body, t1)
             ELSE IF RenderNoteMdExc(note, FALSE) # "none"
             THEN Raised(RenderNoteMdExc(note, FALSE), body, t1)
             ELSE Returned(
                    SetLastContent(body,
                        <<"[User requested to read ">> \o slug \o <<". Display this:]\n\n">>
                        \o RenderNoteMd(note, FALSE)),
                    <<>>,
                    t1 \o EmitStatus(hasSink, <<"Note loaded">>, TRUE))
        ELSE Returned(
               SetLastContent(body,
                   <<"[Error: note not found]\n\n">>
                   \o RenderErrorMd("Note not found",
                                    <<"Could not find {bt}">> \o slug \o <<"{bt}.">>)),
               <<>>,
               t1 \o EmitStatus(hasSink, <<"Not found">>, TRUE))

\* lines 206-209 with render_creation_form (lines 125-138)
InletNew(body, r1, r2) ==
    LET t1 == <<CallEv("GET", <<"/api/categories">>)>>
        categories == FilterFetchCategories(r1)
        t2 == t1 \o <<CallEv("GET", <<"/api/tags">>)>>
        tags == FilterFetchTags(r2)
    IN  IF categories.exc # "none" THEN Raised(categories.exc, body, t1)
        ELSE IF tags.exc # "none" THEN Raised(tags.exc, body, t2)
        ELSE Returned(SetLastContent(body, RenderCreationForm(categories.val, tags.val)),
                      <<>>, t2)

\* lines 212-224
InletSearch(body, hasSink, query, r) ==
    LET t1 == EmitStatus(hasSink, <<"Searching for '">> \o query \o <<"'...">>, FALSE)
                \o <<CallEv("GET", NotesEndpoint(query))>>
        notes == FilterFetchNotes(r)
        head == <<"[Search results for '">> \o query \o <<"':]\n\n">>
    IN  IF notes.exc # "none" THEN Raised(notes.exc, body, t1)
        ELSE IF RenderNotesListMdExc(notes.val) # "none"
        THEN Raised(RenderNotesListMdExc(notes.val), body, t1)
        ELSE IF notes.val # <<>>
        THEN Returned(
               SetLastContent(body, head \o RenderNotesListMd(notes.val)),
               <<>>,
               t1 \o EmitStatus(hasSink,
                        <<"Found ", ToString(Len(notes.val)), " notes">>, TRUE))
        ELSE Returned(
               SetLastContent(body,
                   head \o RenderErrorMd("No results",
                              <<"No notes found matching '">> \o query \o <<"'.">>)),
               <<>>,
               t1 \o EmitStatus(hasSink, <<"No results">>, TRUE))

\* the loop of lines 231-238 from the i-th slug on: the parts collected,
\* the requests sent, and the exception that ended it, if any
RECURSIVE FetchLoop(_, _, _)
FetchLoop(slugs, rs, i) ==
    IF i > Len(slugs) THEN [exc |-> "none", parts |-> <<>>, trace |-> <<>>]
    ELSE LET call == <<CallEv("GET", NoteEndpoint(slugs[i]))>>
             note == FilterApiGet(rs[i])
         IN  IF Truthy(note) /\ note.t # "dict"
             THEN [exc |-> "AttributeError", parts |-> <<>>, trace |-> call]
             ELSE IF Truthy(note) /\ ContextPartExc(note) # "none"
             THEN [exc |-> ContextPartExc(note), parts |-> <<>>, trace |-> call]
             ELSE LET rest == FetchLoop(slugs, rs, i + 1)
                  IN  [exc |-> rest.exc,
                       parts |-> (IF Truthy(note) THEN <<ContextPart(note, slugs[i])>>
                                  ELSE <<>>) \o rest.parts,
                       trace |-> call \o rest.trace]

\* a bug that appends the lower-cased command text instead of the message
ContextBlock_Lowered(parts, original_msg) ==
    <<"[Context: Referenced notes]\n\n">> \o JoinPieces(parts, "\n---\n")
    \o <<"\n\n[User message:] ">> \o Lower(original_msg)

\* lines 241-242: the context joined, then the message
ContextBlock(parts, original_msg) ==
    <<"[Context: Referenced notes]\n\n">> \o JoinPieces(parts, "\n---\n")
    \o <<"\n\n[User message:] ">> \o original_msg


\* lines 227-244: slugs is list(set(...)) in the order the set iterates
InletAutoFetch(body, v, original_msg, slugs, rs) ==
    IF ~v.enable_auto_fetch \/ slugs = <<>> THEN Returned(body, <<>>, <<>>)
    ELSE LET loop == FetchLoop(slugs, rs, 1)
         IN  IF loop.exc # "none" THEN Raised(loop.exc, body, loop.trace)
             ELSE IF loop.parts = <<>> THEN Returned(body, <<>>, loop.trace)
             ELSE Returned(SetLastContent(body, ContextBlock(loop.parts, original_msg)),
                           <<>>, loop.trace)

\* Filter.inlet (lines 142-244).  order: the iteration order of the slug
\* set; rs: the service's answers to the requests, in the order sent
Inlet(body, v, hasSink, order, rs) ==
    IF body.messages = <<>> THEN Returned(body, <<>>, <<>>)
    ELSE IF LastContent(body).t # "str" THEN Returned(body, <<>>, <<>>)
    ELSE LET original_msg == Strip(LastContent(body).s)
             cmd == Normalize(original_msg)
             c == FilterClassify(v, cmd)
         IN  CASE c.cmd = "list" -> InletList(body, hasSink, rs[1])
               [] c.cmd = "read" -> InletRead(body, hasSink, c.arg, rs[1])
               [] c.cmd = "new" -> InletNew(body, rs[1], rs[2])
               [] c.cmd = "search" -> InletSearch(body, hasSink, c.arg, rs[1])
               [] OTHER -> InletAutoFetch(body, v, original_msg, order, rs)

\* Filter.outlet (lines 246-250)
Outlet(body) == Returned(body, <<>>, <<>>)

----------------------------------------------------------------------------
(* Pipe: API helpers (mariposa_pipe.py) *)

\* {"error": str(e)}
ErrorDict(msg) == [EmptyDict EXCEPT !.has = {"error"}, !.error = msg]

\* Pipe.api_get: r.json(), or a dict carrying the exception's text
PipeApiGet(r) ==
    IF r.k = "transport" THEN ErrorDict("ConnectionError")
    ELSE IF RaisesForStatus(r) THEN ErrorDict(ToString(r.code) \o " Error")
    ELSE IF r.body.t = "invalid" THEN ErrorDict("JSONDecodeError")
    ELSE r.body

\* a bug that takes every 2xx status for success
PipeApiDelete_Any2xx(r) ==
    IF r.k = "transport" THEN [success |-> FALSE, error |-> "ConnectionError"]
    ELSE IF r.code >= 200 /\ r.code < 300 THEN [success |-> TRUE, error |-> ""]
    ELSE [success |-> FALSE, error |-> "Status " \o ToString(r.code)]

\* Pipe.api_delete: success only for status 204
PipeApiDelete(r) ==
    IF r.k = "transport" THEN [success |-> FALSE, error |-> "ConnectionError"]
    ELSE IF r.code = 204 THEN [success |-> TRUE, error |-> ""]
    ELSE [success |-> FALSE, error |-> "Status " \o ToString(r.code)]

\* the characters of a key the code tests for
Chars(key) ==
    CASE key = "error" -> <<"e","r","r","o","r">>
      [] key = "categories" -> <<"c","a","t","e","g","o","r","i","e","s">>
      [] key = "tags" -> <<"t","a","g","s">>

\* t in s for two strings: s holds t contiguously
SubstringOf(t, s) == \E i \in 0..(Len(s) - Len(t)) : SubSeq(s, i + 1, i + Len(t)) = t

\* the test  "key" in data  on whatever api_get returned: membership in a
\* dict or a list, a substring test on a string, TypeError on None, a
\* number or a boolean
KeyIn(data, key) ==
    CASE data.t \in {"none", "num", "bool"} -> Exc("TypeError")
      [] data.t = "string" -> Ok(SubstringOf(Chars(key), data.s))
      [] data.t = "list" -> Ok(\E i \in 1..Len(data.items) : data.items[i] = JStr(key))
      [] data.t = "dict" -> Ok(key \in data.has)

\* data[key] on whatever api_get returned, after "key in data" held: a list
\* and a string take no string index
Index(data, key) ==
    IF data.t \in {"list", "string"} THEN Exc("TypeError") ELSE Ok(data[key])

\* Pipe.fetch_categories / Pipe.fetch_tags: data[key] if data and key in data
PipeGetList(data, key) ==
    IF ~Truthy(data) THEN Ok(<<>>)
    ELSE IF KeyIn(data, key).exc # "none" THEN Exc(KeyIn(data, key).exc)
    ELSE IF KeyIn(data, key).val THEN Index(data, key)
    ELSE Ok(<<>>)

----------------------------------------------------------------------------
(* Pipe: HTML rendering *)

\* Pipe.css_styles: the stylesheet, one literal
CssStyles == "\n<style>...</style>\n"

\* artifact(html) of Pipe.pipe
Artifact(html) == <<"{bt}{bt}{bt}html\n", CssStyles, "\n">> \o html \o <<"\n{bt}{bt}{bt}">>

\* Pipe.render_error
RenderError(title, message) ==
    <<"\n<div class=\"note-error\">\n    <div class=\"note-error-title\">{warn} ", title,
      "</div>\n    <div class=\"note-error-msg\">">> \o message \o <<"</div>\n</div>\n">>

\* Pipe.render_note_card
RenderNoteCard(note) ==
    LET title == Get(note, "title", "Untitled")
        slug == Get(note, "slug", "")
        category == Get(note, "category", "uncategorized")
        tags == Get(note, "tags", <<>>)
        content == Get(note, "content", "")
        updated == Get(note, "updatedAt", "")
        tags_html == IF tags # <<>>
                     THEN JoinWrapped(tags, "", "<span class=\"note-tag\">", "</span>")
                     ELSE "<span style=\"color:#666;font-size:12px;\">no tags</span>"
    IN  <<"\n<div class=\"note-card\">\n    <div class=\"note-header\">\n        <h3 class=\"note-title\">",
          title, "</h3>\n        <span class=\"note-category\">", category,
          "</span>\n    </div>\n    <div class=\"note-tags\">", tags_html,
          "</div>\n    <div class=\"note-meta\">\n        <strong>Slug:</strong> ", slug,
          " &nbsp;|&nbsp; <strong>Updated:</strong> ", updated,
          "\n    </div>\n    <div class=\"note-content\">",
          IF content # "" THEN content ELSE "(empty)",
          "</div>\n    <div class=\"note-help\">\n        {bulb} To modify: ...\n    </div>\n</div>\n">>

\* one item of Pipe.render_note_list
NoteListItem(n) ==
    LET title == Get(n, "title", "Untitled")
        slug == Get(n, "slug", "")
        category == Get(n, "category", "")
        tag_count == Len(Get(n, "tags", <<>>))
    IN  <<"\n<div class=\"note-list-item\">\n    <span class=\"note-list-title\">", title,
          "</span>\n    <span class=\"note-list-meta\">", category, " {middot} ",
          ToString(tag_count), " tags {middot} <code>", slug, "</code></span>\n</div>\n">>

\* what one pass of the loop of render_note_list raises: n.get on an item
\* that is no object (line 260), len(None) on tags None (line 263)
NoteListItemExc(n) ==
    IF n.t # "dict" THEN "AttributeError"
    ELSE IF TagsKind(n) = "null" THEN "TypeError"
    ELSE "none"

\* what render_note_list raises: the first pass that raises ends it
RenderNoteListExc(notes) == FirstExc([i \in 1..Len(notes) |-> NoteListItemExc(notes[i])])

RECURSIVE Flatten(_)
Flatten(parts) == IF parts = <<>> THEN <<>> ELSE parts[1] \o Flatten(Tail(parts))

\* Pipe.render_note_list
RenderNoteList(notes) ==
    IF notes = <<>>
    THEN RenderError("No notes found",
           <<"You don't have any notes yet. Say <code>create note titled \"...\"</code> to make one.">>)
    ELSE <<"\n<div class=\"note-card\">\n    <h3 class=\"note-title\">Your Notes (",
           ToString(Len(notes)), ")</h3>\n    <div style=\"margin-top:12px;\">\n        ">>
         \o Flatten([i \in 1..Len(notes) |-> NoteListItem(notes[i])])
         \o <<"\n    </div>\n    <div class=\"note-help\">\n        {bulb} Say <code>read note-X</code> to view a note {middot} <code>search \"...\"</code> to filter\n    </div>\n</div>\n">>

\* Pipe.render_help: static
RenderHelp == <<"\n<div class=\"note-card\">\n    <h3 class=\"note-title\">Mariposa Notes - Help</h3>...</div>\n">>

\* Pipe.render_categories
RenderCategories(categories) ==
    IF categories = <<>> THEN RenderError("No categories", <<"No categories found.">>)
    ELSE <<"\n<div class=\"note-card\">\n    <h3 class=\"note-title\">Categories</h3>\n    <div style=\"margin-top:12px;\">",
           JoinWrapped(categories, "", "<span class=\"note-tag\" style=\"margin:4px;\">", "</span>"),
           "</div>\n</div>\n">>

\* Pipe.render_tags_list
RenderTagsList(tags) ==
    IF tags = <<>> THEN RenderError("No tags", <<"No tags found.">>)
    ELSE <<"\n<div class=\"note-card\">\n    <h3 class=\"note-title\">All Tags</h3>\n    <div style=\"margin-top:12px;\">",
           JoinWrapped(tags, "", "<span class=\"note-tag\" style=\"margin:4px;\">", "</span>"),
           "</div>\n</div>\n">>

\* Pipe.render_deleted
RenderDeleted(slug) ==
    <<"\n<div class=\"note-card\" style=\"border-color:#4a4;\">\n    <h3 class=\"note-title\" style=\"color:#8f8;\">{check} Note Deleted</h3>\n    <div class=\"note-meta\">Successfully deleted <code>">>
    \o slug \o <<"</code></div>\n</div>\n">>

\* the static reply of lines 417-425
Fallback(user_msg) ==
    <<"I received: \"">> \o user_msg \o
    <<"\"\n\nThis doesn't match a notes command. Available commands:\n- {bt}notes{bt} {emdash} List all notes  \n- {bt}read note-X{bt} {emdash} View a note\n- {bt}search \"query\"{bt} {emdash} Find notes\n- {bt}help{bt} {emdash} Show all commands\n\nOr ask me naturally about your notes and I'll use the Mariposa tools to help!">>

----------------------------------------------------------------------------
(* Pipe.pipe: command matching *)

cHelp == <<"h","e","l","p">>
cList == <<"l","i","s","t">>
cShow == <<"s","h","o","w">>
cMy == <<"m","y">>
cOpen == <<"o","p","e","n">>
cView == <<"v","i","e","w">>
cDelete == <<"d","e","l","e","t","e">>
cCategories == <<"c","a","t","e","g","o","r","i","e","s">>
cTags == <<"t","a","g","s">>
cAll == <<"a","l","l">>
SP == <<" ">>

\* line 364
PipeHelpKeywords ==
    {cHelp, <<"/">> \o cHelp, <<"?">>, cNotes \o SP \o cHelp}

\* line 368
PipeListKeywords ==
    {cNotes, <<"/">> \o cNotes, cList \o SP \o cNotes, cShow \o SP \o cNotes,
     cMy \o SP \o cNotes}

\* line 396
PipeCategoriesKeywords ==
    {cCategories, <<"/">> \o cCategories, cList \o SP \o cCategories,
     cShow \o SP \o cCategories}

\* line 401
PipeTagsKeywords ==
    {cTags, <<"/">> \o cTags, cList \o SP \o cTags, cShow \o SP \o cTags,
     cAll \o SP \o cTags}

\* a bug that takes any argument after the verb: (\S.*) for (note-\d+)
PipeReadMatch_AnyArg(cmd) ==
    LET ends == {VerbEnd(cmd, verb, FALSE) : verb \in {cRead, cShow, cOpen, cView}} \ {0}
    IN  IF ends = {} THEN NoMatch
        ELSE LET p == CHOOSE e \in ends : TRUE
             IN  IF p > Len(cmd) THEN NoMatch
                 ELSE [ok |-> TRUE, arg |-> SubSeq(cmd, p, Len(cmd)), end |-> Len(cmd) + 1]

\* line 375: re.match(r"^/?(?:read|show|open|view)\s+(note-\d+)$", cmd)
PipeReadMatch(cmd) ==
    IF VerbSlugFull(cmd, cRead).ok THEN VerbSlugFull(cmd, cRead)
    ELSE IF VerbSlugFull(cmd, cShow).ok THEN VerbSlugFull(cmd, cShow)
    ELSE IF VerbSlugFull(cmd, cOpen).ok THEN VerbSlugFull(cmd, cOpen)
    ELSE VerbSlugFull(cmd, cView)

IsQuote(c) == c \in {"\"", "'"}

\* line 384: re.match(r'^/?search\s+["\']?(.+?)["\']?$', cmd), without
\* re.IGNORECASE: the longest run of whitespace and an opening quote, as far
\* as they leave the group a character; the shortest group that reaches the
\* end of the text or the quote that ends it; "." matches no line break, and
\* $ is the end of the text or the place before a line break that ends it
PipeSearchMatch(cmd) ==
    LET s0 == VerbStart(cmd, cSearch, FALSE)
        e == SpaceRunEnd(cmd, s0)
        n == IF cmd # <<>> /\ cmd[Len(cmd)] = "\n" THEN Len(cmd) - 1 ELSE Len(cmd)
        starts == {a \in (s0 + 1)..(e + 1) :
                     /\ a <= n
                     /\ a = e + 1 => IsQuote(cmd[e])
                     /\ \A j \in a..n : cmd[j] # "\n"}
    IN  IF s0 = 0 \/ starts = {} THEN NoMatch
        ELSE LET a == CHOOSE x \in starts : \A y \in starts : y <= x
             IN  IF IsQuote(cmd[n]) /\ n - 1 >= a
                 THEN [ok |-> TRUE, arg |-> SubSeq(cmd, a, n - 1), end |-> n + 1]
                 ELSE [ok |-> TRUE, arg |-> SubSeq(cmd, a, n), end |-> n + 1]

\* a bug that leaves out the anchor at the end, as filter line 190 does
PipeDeleteMatch_Prefix(cmd) == VerbSlugPrefix(cmd, cDelete, FALSE)

\* line 406: re.match(r"^/?delete\s+(note-\d+)$", cmd)
PipeDeleteMatch(cmd) == VerbSlugFull(cmd, cDelete)

\* the if-chain of lines 363-412: the first rule that matches
PipeClassify(cmd) ==
    IF cmd \in PipeHelpKeywords THEN [cmd |-> "help", arg |-> <<>>]
    ELSE IF cmd \in PipeListKeywords THEN [cmd |-> "list", arg |-> <<>>]
    ELSE IF PipeReadMatch(cmd).ok THEN [cmd |-> "read", arg |-> PipeReadMatch(cmd).arg]
    ELSE IF PipeSearchMatch(cmd).ok
         THEN [cmd |-> "search", arg |-> PipeSearchMatch(cmd).arg]
    ELSE IF cmd \in PipeCategoriesKeywords THEN [cmd |-> "categories", arg |-> <<>>]
    ELSE IF cmd \in PipeTagsKeywords THEN [cmd |-> "tags", arg |-> <<>>]
    ELSE IF PipeDeleteMatch(cmd).ok
         THEN [cmd |-> "delete", arg |-> PipeDeleteMatch(cmd).arg]
    ELSE [cmd |-> "none", arg |-> <<>>]

----------------------------------------------------------------------------
(* The command rules as the code lists them *)

\* the tests of Filter.inlet in the order of lines 180, 190, 206, 212
FilterRuleOrder == <<"list", "read", "new", "search">>

\* the tests of Pipe.pipe in the order of lines 364, 368, 375, 384, 396, 401, 406
PipeRuleOrder == <<"help", "list", "read", "search", "categories", "tags", "delete">>

\* a rule that compares with literals, or one that matches a pattern and
\* captures an argument
RuleKind(r) == IF r \in {"read", "search", "delete"} THEN "regex" ELSE "keyword"

FilterRuleMatches(r, cmd) ==
    CASE r = "list" -> FilterIsListCmd(cmd)
      [] r = "read" -> FilterReadMatch(cmd).ok
      [] r = "new" -> FilterIsNewCmd(cmd)
      [] r = "search" -> FilterSearchMatch(cmd).ok

PipeRuleMatches(r, cmd) ==
    CASE r = "help" -> cmd \in PipeHelpKeywords
      [] r = "list" -> cmd \in PipeListKeywords
      [] r = "read" -> PipeReadMatch(cmd).ok
      [] r = "search" -> PipeSearchMatch(cmd).ok
      [] r = "categories" -> cmd \in PipeCategoriesKeywords
      [] r = "tags" -> cmd \in PipeTagsKeywords
      [] r = "delete" -> PipeDeleteMatch(cmd).ok

\* the literals a keyword rule compares the whole text with
FilterKeywords(r) ==
    CASE r = "list" -> {cNotes, <<"/">> \o cNotes}
      [] r = "new" -> {cNew, <<"/">> \o cNew}
      [] OTHER -> {}

PipeKeywords(r) ==
    CASE r = "help" -> PipeHelpKeywords
      [] r = "list" -> PipeListKeywords
      [] r = "categories" -> PipeCategoriesKeywords
      [] r = "tags" -> PipeTagsKeywords
      [] OTHER -> {}

\* the tests the if-chain evaluates for cmd: every rule up to and including
\* the first that matches
FilterRulesTried(cmd) ==
    LET hit == {i \in 1..Len(FilterRuleOrder) : FilterRuleMatches(FilterRuleOrder[i], cmd)}
    IN  IF hit = {} THEN FilterRuleOrder
        ELSE SubSeq(FilterRuleOrder, 1, CHOOSE i \in hit : \A j \in hit : i <= j)

PipeRulesTried(cmd) ==
    LET hit == {i \in 1..Len(PipeRuleOrder) : PipeRuleMatches(PipeRuleOrder[i], cmd)}
    IN  IF hit = {} THEN PipeRuleOrder
        ELSE SubSeq(PipeRuleOrder, 1, CHOOSE i \in hit : \A j \in hit : i <= j)

----------------------------------------------------------------------------
(* Pipe.pipe: the branches *)

\* lines 368-372
PipeList(body, r) ==
    LET t1 == <<CallEv("GET", NotesEndpoint(<<>>))>>
        data == PipeApiGet(r)
        err == KeyIn(data, "error")
    IN  IF err.exc # "none" THEN Raised(err.exc, body, t1)
        ELSE IF err.val /\ Index(data, "error").exc # "none"
        THEN Raised(Index(data, "error").exc, body, t1)
        ELSE IF err.val
        THEN Returned(body,
               Artifact(RenderError("Connection Error",
                            <<"Could not reach Mariposa: ", data.error>>)), t1)
        ELSE IF data.t # "dict" THEN Raised("AttributeError", body, t1)
        ELSE IF RenderNoteListExc(Get(data, "notes", <<>>)) # "none"
        THEN Raised(RenderNoteListExc(Get(data, "notes", <<>>)), body, t1)
        ELSE Returned(body, Artifact(RenderNoteList(Get(data, "notes", <<>>))), t1)

\* lines 375-381
PipeRead(body, slug, r) ==
    LET t1 == <<CallEv("GET", NoteEndpoint(slug))>>
        note == PipeApiGet(r)
        notFound == Returned(body,
                      Artifact(RenderError("Note not found",
                                   <<"Could not find <code>">> \o slug \o <<"</code>">>)), t1)
    IN  IF ~Truthy(note) THEN notFound
        ELSE IF KeyIn(note, "error").exc # "none"
        THEN Raised(KeyIn(note, "error").exc, body, t1)
        ELSE IF KeyIn(note, "error").val THEN notFound
        ELSE IF note.t # "dict" THEN Raised("AttributeError", body, t1)
        ELSE Returned(body, Artifact(RenderNoteCard(note)), t1)

\* lines 384-393
PipeSearch(body, query, r) ==
    LET t1 == <<CallEv("GET", NotesEndpoint(query))>>
        data == PipeApiGet(r)
        err == KeyIn(data, "error")
    IN  IF err.exc # "none" THEN Raised(err.exc, body, t1)
        ELSE IF err.val /\ Index(data, "error").exc # "none"
        THEN Raised(Index(data, "error").exc, body, t1)
        ELSE IF err.val
        THEN Returned(body, Artifact(RenderError("Search Error", <<data.error>>)), t1)
        ELSE IF data.t # "dict" THEN Raised("AttributeError", body, t1)
        ELSE IF Get(data, "notes", <<>>) = <<>>
        THEN Returned(body,
               Artifact(RenderError("No results",
                            <<"No notes found matching \"">> \o query \o <<"\"">>)), t1)
        ELSE IF RenderNoteListExc(Get(data, "notes", <<>>)) # "none"
        THEN Raised(RenderNoteListExc(Get(data, "notes", <<>>)), body, t1)
        ELSE Returned(body,
               Artifact(<<"<div style=\"color:#888;margin-bottom:8px;\">Search results for \"">>
                        \o query \o <<"\":</div>">>
                        \o RenderNoteList(Get(data, "notes", <<>>))), t1)

\* lines 396-398
PipeCategories(body, r) ==
    LET t1 == <<CallEv("GET", <<"/api/categories">>)>>
        categories == PipeGetList(PipeApiGet(r), "categories")
    IN  IF categories.exc # "none" THEN Raised(categories.exc, body, t1)
        ELSE Returned(body, Artifact(RenderCategories(categories.val)), t1)

\* lines 401-403
PipeTags(body, r) ==
    LET t1 == <<CallEv("GET", <<"/api/tags">>)>>
        tags == PipeGetList(PipeApiGet(r), "tags")
    IN  IF tags.exc # "none" THEN Raised(tags.exc, body, t1)
        ELSE Returned(body, Artifact(RenderTagsList(tags.val)), t1)

\* lines 406-412
PipeDelete(body, slug, r) ==
    LET t1 == <<CallEv("DELETE", NoteEndpoint(slug))>>
        result == PipeApiDelete(r)
    IN  IF result.success THEN Returned(body, Artifact(RenderDeleted(slug)), t1)
        ELSE Returned(body,
               Artifact(RenderError("Delete Failed",
                            <<"Could not delete ">> \o slug \o <<": ", result.error>>)), t1)

\* Pipe.pipe (lines 349-425); rs: the service's answers, in the order sent
Pipe(body, v, rs) ==
    IF body.messages = <<>> THEN Returned(body, <<"No messages received.">>, <<>>)
    ELSE IF LastContent(body).t # "str" THEN Raised("AttributeError", body, <<>>)
    ELSE LET user_msg == Strip(LastContent(body).s)
             cmd == Normalize(user_msg)
             c == PipeClassify(cmd)
         IN  CASE c.cmd = "help" -> Returned(body, Artifact(RenderHelp), <<>>)
               [] c.cmd = "list" -> PipeList(body, rs[1])
               [] c.cmd = "read" -> PipeRead(body, c.arg, rs[1])
               [] c.cmd = "search" -> PipeSearch(body, c.arg, rs[1])
               [] c.cmd = "categories" -> PipeCategories(body, rs[1])
               [] c.cmd = "tags" -> PipeTags(body, rs[1])
               [] c.cmd = "delete" -> PipeDelete(body, c.arg, rs[1])
               [] OTHER -> Returned(body, Fallback(user_msg), <<>>)

----------------------------------------------------------------------------
(* Inputs: payloads, valves and service answers *)

\* how many earlier messages a payload carries, at most
MaxHistory == 1

\* how many notes a list answer carries, at most
MaxNotes == 1

\* the texts a user sends as the last message
UserTexts ==
    {
     <<"n","o","t","e","s">>,
     <<" ","/","N","o","t","e","s"," ">>,
     <<"N","O","T","E","S">>,
     <<"L","i","s","t"," ","N","o","t","e","s">>,
     <<"s","h","o","w"," ","n","o","t","e","s">>,
     <<"\t","m","y"," ","n","o","t","e","s">>,
     <<"/","n","o","t","e","s"," ","n","o","t","e","-","5">>,
     <<"s","e","a","r","c","h"," ","n","o","t","e","-","5">>,
     <<"h","e","l","p">>,
     <<"c","a","t","e","g","o","r","i","e","s">>,
     <<"a","l","l"," ","t","a","g","s">>,
     <<"S","h","o","w"," ","T","a","g","s">>,
     <<"\f","n","o","t","e","s">>,
     <<"r","e","a","d"," ","n","o","t","e","-","5">>,
     <<"S","e","a","r","c","h"," ","C","A","F","É">>,
     <<"{u017F}","e","a","r","c","h"," ","x">>,
     <<"r","e","a","d"," ","n","o","t","e","-","{u0665}">>,
     <<"n","e","w">>,
     <<"/","N","E","W">>,
     <<"r","e","a","d"," ","n","o","t","e","-","5">>,
     <<"/","R","E","A","D"," "," ","N","o","t","e","-","5">>,
     <<"r","e","a","d"," ","n","o","t","e","-","5","x">>,
     <<"r","e","a","d"," ","f","o","o">>,
     <<"s","h","o","w"," ","n","o","t","e","-","1","2">>,
     <<"v","i","e","w"," ","n","o","t","e","-","5"," ","n","o","w">>,
     <<"d","e","l","e","t","e"," ","n","o","t","e","-","5">>,
     <<" ","D","e","l","e","t","e","\t","N","O","T","E","-","7"," ">>,
     <<"/","d","e","l","e","t","e"," ","n","o","t","e","-","5">>,
     <<"d","e","l","e","t","e"," ","n","o","t","e","-">>,
     <<"d","e","l","e","t","e"," ","n","o","t","e","-","5","x">>,
     <<"d","e","l","e","t","e"," ","f","o","o">>,
     <<"s","e","a","r","c","h"," ","b","u","d","g","e","t">>,
     <<"S","e","a","r","c","h"," ","\"","B","u","d","g","e","t","\"">>,
     <<"s","e","a","r","c","h">>,
     <<"f","o","o"," ","b","a","r">>,
     <<>>,
     <<" ","S","e","e"," ","n","o","t","e","-","5"," ">>,
     <<"n","o","t","e","-","5"," ","N","O","T","E","-","5">>,
     <<"n","o","t","e","-","5"," ","n","o","t","e","-","5">>,
     <<"N","o","t","e","-","5",","," ","n","o","t","e","-","1","2","!">>
    }

Earlier == [role |-> "assistant", content |-> StrContent(<<"o","k">>)]

Histories == UNION {[1..n -> {Earlier}] : n \in 0..MaxHistory}

LastMessages ==
    {[role |-> "user", content |-> StrContent(t)] : t \in UserTexts}
    \cup {[role |-> "user", content |-> PartsContent],
          [role |-> "user", content |-> NoContent]}

Payloads ==
    {[model |-> "mariposa", messages |-> <<>>]}
    \cup {[model |-> "mariposa", messages |-> h \o <<m>>] : h \in Histories, m \in LastMessages}

FilterValves ==
    [enable_auto_fetch : BOOLEAN, enable_slash_commands : BOOLEAN, passthrough_model : {""}]

PipeValves ==
    [enable_auto_fetch : {TRUE}, enable_slash_commands : {TRUE},
     passthrough_model : {"", "llama3"}]

\* a note as the service stores it: slug and updatedAt are service-assigned
FullNote ==
    [EmptyDict EXCEPT !.has = {"title", "slug", "category", "tags", "content", "updatedAt"},
                      !.title = "Plan", !.slug = "note-5", !.category = "work",
                      !.tags = <<"q1">>, !.content = "Draft plan",
                      !.updatedAt = "2024-01-01"]

\* a note whose tags are null, and one whose tags are numbers
NullTagsNote == [FullNote EXCEPT !.tags = <<>>, !.tags_t = "null"]
NumberTagsNote == [FullNote EXCEPT !.tags = <<"1">>, !.tags_t = "nums"]

\* FullNote, with one field missing, with all four missing or all four
\* empty, with tags null and with tags that are numbers
NoteDicts ==
    {FullNote}
    \cup {[FullNote EXCEPT !.has = @ \ {k}, ![k] = EmptyDict[k]] :
            k \in {"title", "category", "tags", "content"}}
    \cup {[FullNote EXCEPT !.has = {"slug", "updatedAt"}, !.title = "", !.category = "",
                           !.tags = <<>>, !.content = ""],
          [FullNote EXCEPT !.title = "", !.category = "", !.tags = <<>>, !.content = ""]}
    \cup {NullTagsNote, NumberTagsNote}

\* the items of a list answer: notes that are complete, without fields or
\* with empty fields, with tags null or numbers, and an item that is no object
ListNotes ==
    {FullNote,
     [FullNote EXCEPT !.has = {"slug", "updatedAt"}, !.title = "", !.category = "",
                      !.tags = <<>>, !.content = ""],
     [FullNote EXCEPT !.title = "", !.category = "", !.tags = <<>>, !.content = ""],
     NullTagsNote, NumberTagsNote, JNum("1")}

NoteLists == UNION {[1..n -> ListNotes] : n \in 0..MaxNotes}

\* answers that are no usable object, whatever the endpoint: a failed call,
\* a body that is not JSON, and JSON that is null, a string, a number, a
\* boolean, an array, an object without keys or one with "error"
BadAnswers ==
    {TransportError, Http(404, NotJson), Http(200, NotJson),
     Http(200, PyNone), Http(200, JsonString(<<"x">>)),
     Http(200, JsonString(<<"e","r","r","o","r">>)), Http(200, JNum("1")),
     Http(200, PyBool(TRUE)),
     Http(200, PyList(<<>>)), Http(200, PyList(<<JNum("1")>>)),
     Http(200, PyList(<<JStr("error")>>)),
     Http(200, EmptyDict), Http(200, ErrorDict("boom"))}

\* answers to GET /api/notes/<slug>
NoteAnswers == BadAnswers \cup {Http(200, n) : n \in NoteDicts}

\* answers to GET /api/notes[?search=]
ListAnswers ==
    BadAnswers \cup {Http(200, [EmptyDict EXCEPT !.has = {"notes"}, !.notes = l]) :
                       l \in NoteLists}

\* answers to GET /api/categories and GET /api/tags
CategoriesAnswers ==
    BadAnswers \cup {Http(200, PyList(<<JStr("categories")>>))}
      \cup {Http(200, [EmptyDict EXCEPT !.has = {"categories"}, !.categories = l]) :
              l \in {<<>>, <<"work">>}}
TagsAnswers ==
    BadAnswers \cup {Http(200, PyList(<<JStr("tags")>>))}
      \cup {Http(200, [EmptyDict EXCEPT !.has = {"tags"}, !.tags = l]) :
              l \in {<<>>, <<"q1">>}}

\* answers to DELETE /api/notes/<slug>
DeleteAnswers ==
    {TransportError, Http(204, NotJson), Http(200, NotJson), Http(404, NotJson),
     Http(500, NotJson)}

AnswersFor(kind) ==
    CASE kind = "note" -> NoteAnswers
      [] kind = "notes" -> ListAnswers
      [] kind = "categories" -> CategoriesAnswers
      [] kind = "tags" -> TagsAnswers
      [] kind = "delete" -> DeleteAnswers

\* one answer for each request of a plan
RECURSIVE AnswersTo(_)
AnswersTo(plan) ==
    IF plan = <<>> THEN {<<>>}
    ELSE {<<a>> \o rest : a \in AnswersFor(plan[1]), rest \in AnswersTo(Tail(plan))}

\* the text inlet works on (lines 152-156), <<>> when it returns early
InletText(body) ==
    IF body.messages = <<>> \/ LastContent(body).t # "str" THEN <<>>
    ELSE Strip(LastContent(body).s)

\* the kinds of request inlet sends for a payload, when none of them raises
InletPlan(body, v, order) ==
    LET c == FilterClassify(v, Normalize(InletText(body)))
    IN  IF body.messages = <<>> \/ LastContent(body).t # "str" THEN <<>>
        ELSE CASE c.cmd = "list" -> <<"notes">>
               [] c.cmd = "read" -> <<"note">>
               [] c.cmd = "new" -> <<"categories", "tags">>
               [] c.cmd = "search" -> <<"notes">>
               [] OTHER -> IF v.enable_auto_fetch THEN [i \in 1..Len(order) |-> "note"]
                           ELSE <<>>

\* the kinds of request pipe sends for a payload
PipePlan(body) ==
    LET c == PipeClassify(Normalize(InletText(body)))
    IN  IF body.messages = <<>> \/ LastContent(body).t # "str" THEN <<>>
        ELSE CASE c.cmd = "list" -> <<"notes">>
               [] c.cmd = "read" -> <<"note">>
               [] c.cmd = "search" -> <<"notes">>
               [] c.cmd = "categories" -> <<"categories">>
               [] c.cmd = "tags" -> <<"tags">>
               [] c.cmd = "delete" -> <<"delete">>
               [] OTHER -> <<>>

----------------------------------------------------------------------------
(* Suspension of inlet.  inlet is a coroutine: with a sink supplied it awaits
   the sink at each status (lines 166-171), first before the request (lines
   181, 193, 215), then after the rendering and before the rewrite (lines
   184, 197, 201, 219, 222).  At an await the event loop may run something
   else: the host may touch the payload object, another inlet may run.  The
   new command and the auto-fetch path notify nothing, and with no sink
   emit_status awaits nothing: those invocations run in one piece, as
   outlet and pipe (plain functions) do. *)

\* inlet reaches an await of the sink
Suspends(body, v, hasSink) ==
    /\ hasSink /\ body.messages # <<>> /\ LastContent(body).t = "str"
    /\ FilterClassify(v, Normalize(InletText(body))).cmd \in {"list", "read", "search"}

\* the trace of inlet when it first awaits the sink: the start status alone;
\* no request has been sent, so no answer has a part in it
InletUntilFirstAwait(body, v) ==
    SubSeq(Inlet(body, v, TRUE, <<>>, <<TransportError>>).trace, 1, 1)

\* the events of one invocation as the event loop sees them
Tagged(inv, trace) == [i \in 1..Len(trace) |-> [inv |-> inv, e |-> trace[i]]]

\* the most the host appends to a payload while inlet is suspended
MaxAppended == 1

\* a message the host appends to body["messages"] during a suspension
Later == [role |-> "user", content |-> StrContent(<<"l","a","t","e","r">>)]

\* the second invocation: its own payload, a sink, the same Filter instance
PeerBody ==
    [model |-> "mariposa",
     messages |-> <<[role |-> "user",
                     content |-> StrContent(cRead \o SP \o <<"n","o","t","e","-","5">>)]>>]
PeerValves ==
    [enable_auto_fetch |-> TRUE, enable_slash_commands |-> TRUE, passthrough_model |-> ""]
\* the service has no such note
PeerAnswer == Http(404, NotJson)
PeerRun == Inlet(PeerBody, PeerValves, TRUE, <<>>, <<PeerAnswer>>)

----------------------------------------------------------------------------
(* The handlers as actions *)

\* inlet is called: it runs to its first await of the sink, or to its end
\* when nothing suspends it
FilterInlet ==
    /\ adapter = "none" /\ inletPc = "idle"
    /\ \E body \in Payloads, v \in FilterValves, hasSink \in BOOLEAN :
      /\ valves' = v
      /\ request' = body
      /\ sink' = hasSink
      /\ IF Suspends(body, v, hasSink)
         THEN /\ adapter' = "none"
              /\ inletPc' = "await_start"
              /\ svc' = <<>>
              /\ outcome' = Returned(body, <<>>, InletUntilFirstAwait(body, v))
         ELSE \E order \in Orders(MentionedSlugs(InletText(body))) :
                \E rs \in AnswersTo(InletPlan(body, v, order)) :
                  /\ adapter' = "inlet"
                  /\ inletPc' = "idle"
                  /\ svc' = rs
                  /\ outcome' = Inlet(body, v, hasSink, order, rs)
      /\ log' = log \o Tagged("A", outcome'.trace)
      /\ UNCHANGED <<pending, peer>>

\* inlet is resumed after the start status: it sends the request and renders
\* (which may raise), emits the end status and awaits the sink again.  What
\* it works on (cmd, slug, query) was read before the first await.
InletResumes ==
    /\ inletPc = "await_start"
    /\ \E rs \in AnswersTo(InletPlan(request, valves, <<>>)) :
         LET run == Inlet(request, valves, TRUE, <<>>, rs)
         IN  /\ svc' = rs
             /\ log' = log \o Tagged("A", SubSeq(run.trace, 2, Len(run.trace)))
             /\ IF run.raised # "none"
                THEN /\ outcome' = Raised(run.raised, outcome.body, run.trace)
                     /\ inletPc' = "idle"
                     /\ adapter' = "inlet"
                ELSE /\ outcome' = [outcome EXCEPT !.trace = run.trace]
                     /\ inletPc' = "await_end"
                     /\ adapter' = "none"
             /\ pending' = IF run.raised # "none" THEN <<>> ELSE LastContent(run.body).s
    /\ UNCHANGED <<valves, request, sink, peer>>

\* inlet is resumed after the end status: messages[-1]["content"] = ... on
\* the list as it is now (lines 186, 198, 202, 223), and return body
InletReturns ==
    /\ inletPc = "await_end"
    /\ outcome' = Returned(SetLastContent(outcome.body, pending), <<>>, outcome.trace)
    /\ pending' = <<>>
    /\ inletPc' = "idle"
    /\ adapter' = "inlet"
    /\ UNCHANGED <<valves, request, sink, svc, peer, log>>

\* while inlet is suspended the host appends a message to the list inlet
\* holds (messages is body["messages"] itself, line 148)
HostAppends ==
    /\ inletPc \in {"await_start", "await_end"}
    /\ Len(outcome.body.messages) < Len(request.messages) + MaxAppended
    /\ outcome' = [outcome EXCEPT !.body.messages = Append(@, Later)]
    /\ UNCHANGED <<adapter, valves, request, sink, svc, inletPc, pending, peer, log>>

\* while inlet is suspended a second inlet is called on the same loop; it is
\* followed from here to its return, in every interleaving with the first
PeerInlet ==
    /\ inletPc \in {"await_start", "await_end"}
    /\ peer = "idle"
    /\ peer' = "await_start"
    /\ log' = log \o Tagged("B", InletUntilFirstAwait(PeerBody, PeerValves))
    /\ UNCHANGED <<adapter, valves, request, sink, svc, outcome, inletPc, pending>>

PeerResumes ==
    /\ peer = "await_start"
    /\ log' = log \o Tagged("B", SubSeq(PeerRun.trace, 2, Len(PeerRun.trace)))
    /\ peer' = IF PeerRun.raised # "none" THEN "done" ELSE "await_end"
    /\ UNCHANGED <<adapter, valves, request, sink, svc, outcome, inletPc, pending>>

PeerReturns ==
    /\ peer = "await_end"
    /\ peer' = "done"
    /\ UNCHANGED <<adapter, valves, request, sink, svc, outcome, inletPc, pending, log>>

FilterOutlet ==
    /\ adapter = "none" /\ inletPc = "idle"
    /\ \E body \in Payloads, v \in FilterValves :
      /\ adapter' = "outlet"
      /\ valves' = v
      /\ request' = body
      /\ sink' = FALSE
      /\ svc' = <<>>
      /\ outcome' = Outlet(body)
      /\ log' = log \o Tagged("A", outcome'.trace)
      /\ UNCHANGED <<inletPc, pending, peer>>

PipePipe ==
    /\ adapter = "none" /\ inletPc = "idle"
    /\ \E body \in Payloads, v \in PipeValves :
      \E rs \in AnswersTo(PipePlan(body)) :
        /\ adapter' = "pipe"
        /\ valves' = v
        /\ request' = body
        /\ sink' = FALSE
        /\ svc' = rs
        /\ outcome' = Pipe(body, v, rs)
        /\ log' = log \o Tagged("A", outcome'.trace)
        /\ UNCHANGED <<inletPc, pending, peer>>

----------------------------------------------------------------------------
(* Filter's public helpers api_post and api_delete.  No handler calls them;
   code that holds the Filter object can. *)

NoPayload == [model |-> "mariposa", messages |-> <<>>]

PostAnswers == BadAnswers \cup {Http(201, n) : n \in NoteDicts}

\* Filter.api_post("/api/notes", data) called by itself (lines 44-50)
CallApiPost ==
    /\ adapter = "none" /\ inletPc = "idle"
    /\ \E v \in FilterValves, r \in PostAnswers :
      /\ adapter' = "api_post"
      /\ valves' = v
      /\ request' = NoPayload
      /\ sink' = FALSE
      /\ svc' = <<r>>
      /\ outcome' = [Returned(NoPayload, <<>>, <<CallEv("POST", <<"/api/notes">>)>>)
                       EXCEPT !.value = FilterApiPost(r)]
      /\ log' = log \o Tagged("A", outcome'.trace)
      /\ UNCHANGED <<inletPc, pending, peer>>

\* Filter.api_delete("/api/notes/note-5") called by itself (lines 52-57)
CallApiDelete ==
    /\ adapter = "none" /\ inletPc = "idle"
    /\ \E v \in FilterValves, r \in DeleteAnswers :
      /\ adapter' = "api_delete"
      /\ valves' = v
      /\ request' = NoPayload
      /\ sink' = FALSE
      /\ svc' = <<r>>
      /\ outcome' = [Returned(NoPayload, <<>>,
                              <<CallEv("DELETE", NoteEndpoint(<<"n","o","t","e","-","5">>))>>)
                       EXCEPT !.value = PyBool(FilterApiDelete(r))]
      /\ log' = log \o Tagged("A", outcome'.trace)
      /\ UNCHANGED <<inletPc, pending, peer>>

----------------------------------------------------------------------------
Init ==
    /\ adapter = "none"
    /\ valves = [enable_auto_fetch |-> TRUE, enable_slash_commands |-> TRUE,
                 passthrough_model |-> ""]
    /\ request = NoPayload
    /\ sink = FALSE
    /\ svc = <<>>
    /\ outcome = Returned(request, <<>>, <<>>)
    /\ inletPc = "idle"
    /\ pending = <<>>
    /\ peer = "idle"
    /\ log = <<>>

\* the chat turn is over: nothing of an invocation outlives it (both adapters
\* are stateless), and the host may dispatch the next turn
TurnEnds ==
    /\ adapter # "none"
    /\ peer \in {"idle", "done"}
    /\ adapter' = "none"
    /\ valves' = [enable_auto_fetch |-> TRUE, enable_slash_commands |-> TRUE,
                  passthrough_model |-> ""]
    /\ request' = NoPayload
    /\ sink' = FALSE
    /\ svc' = <<>>
    /\ outcome' = Returned(request', <<>>, <<>>)
    /\ inletPc' = "idle"
    /\ pending' = <<>>
    /\ peer' = "idle"
    /\ log' = <<>>

Next ==
    \/ FilterInlet \/ InletResumes \/ InletReturns \/ HostAppends
    \/ PeerInlet \/ PeerResumes \/ PeerReturns
    \/ FilterOutlet \/ PipePipe
    \/ CallApiPost \/ CallApiDelete
    \/ TurnEnds

Spec == Init /\ [][Next]_vars

----------------------------------------------------------------------------
(* Properties.  Each is a predicate on the record of one completed
   invocation: adapter names the handler once it has returned or raised. *)

\* the outbound requests of the invocation, in the order sent
Calls == SelectSeq(outcome.trace, LAMBDA e : e.ev = "call")

\* the status notifications of the invocation, in the order emitted
Notifications == SelectSeq(outcome.trace, LAMBDA e : e.ev = "status")

\* the last message is text, and the text as the user sent it
HasText == request.messages # <<>> /\ LastContent(request).t = "str"
RawText == LastContent(request).s
\* the text trimmed and lower-cased
NormText == Lower(Strip(RawText))

\* the handler is one that interprets commands
InletWithCommands == adapter = "inlet" /\ valves.enable_slash_commands
ListCall == CallEv("GET", <<"/api/notes">>)

Contains(q, piece) == \E i \in 1..Len(q) : q[i] = piece
\* q holds the characters of t, contiguously
ContainsText(q, t) == \E i \in 0..(Len(q) - Len(t)) : SubSeq(q, i + 1, i + Len(t)) = t
EndsWith(q, t) == Len(q) >= Len(t) /\ SubSeq(q, Len(q) - Len(t) + 1, Len(q)) = t

\* the text the handler produced: the rewritten content (inlet), the reply (pipe)
Produced ==
    IF adapter = "pipe" THEN outcome.text
    ELSE IF outcome.body.messages = <<>> THEN <<>>
    ELSE LastContent(outcome.body).s

\* what pipe's list call handed back to the handler
PipeListData == PipeApiGet(svc[1])

\* what a list command renders.  Inlet: its preamble and the list.  Pipe: the
\* connection-error card when the call failed (or the answer carries "error"),
\* the "no notes" card for an empty list, the list card with the count of the
\* notes otherwise.
IsListRendering ==
    IF adapter = "inlet"
    THEN /\ outcome.body # request
         /\ Produced[1] = "[User requested note list. Display this to them:]\n\n"
    ELSE /\ Produced[1] = "{bt}{bt}{bt}html\n"
         /\ IF "error" \in PipeListData.has
            THEN Contains(Produced, "Connection Error")
            ELSE IF Get(PipeListData, "notes", <<>>) = <<>>
            THEN Contains(Produced, "No notes found")
            ELSE \E i \in 1..(Len(Produced) - 1) :
                 /\ Produced[i] = "\n<div class=\"note-card\">\n    <h3 class=\"note-title\">Your Notes ("
                 /\ Produced[i + 1] = ToString(Len(PipeListData.notes))

FiveListKeywords ==
    {cNotes, <<"/">> \o cNotes, cList \o SP \o cNotes, cShow \o SP \o cNotes,
     cMy \o SP \o cNotes}

\* C1 as stated: in both adapters (inlet with slash commands enabled, pipe) a
\* last message whose trimmed, lower-cased text is one of the five list
\* keywords is classified as list-notes: one list call is sent, and what is
\* returned is the list rendering.
C1_FiveKeywordsBothAdapters ==
    ((InletWithCommands \/ adapter = "pipe") /\ HasText /\ NormText \in FiveListKeywords)
    => /\ Calls = <<ListCall>>
       /\ outcome.raised = "none" => IsListRendering

\* C1 amended: pipe classifies all five keywords as list-notes, inlet (slash
\* commands enabled) only "/notes" and "notes", whatever the case and the
\* surrounding whitespace of the message: one list call is sent and what is
\* returned is the list rendering; inlet takes "list notes", "show notes" and
\* "my notes" for no command: it sends no call and returns the payload as
\* received.
C1_ListKeywords ==
    /\ (adapter = "pipe" /\ HasText /\ NormText \in FiveListKeywords)
         => /\ Calls = <<ListCall>>
            /\ outcome.raised = "none" => IsListRendering
    /\ (InletWithCommands /\ HasText /\ NormText \in {cNotes, <<"/">> \o cNotes})
         => /\ Calls = <<ListCall>>
            /\ outcome.raised = "none" => IsListRendering
    /\ (adapter = "inlet" /\ HasText
        /\ NormText \in FiveListKeywords \ {cNotes, <<"/">> \o cNotes})
         => /\ Calls = <<>>
            /\ outcome.raised = "none"
            /\ outcome.body = request

\* C1 witness: inlet listed the notes for a keyword written in another case
\* and with whitespace around it
C1_Witness ==
    /\ InletWithCommands /\ HasText
    /\ NormText = <<"/">> \o cNotes
    /\ RawText # NormText /\ Strip(RawText) # NormText /\ Lower(RawText) # NormText
    /\ Calls = <<ListCall>>
    /\ outcome.raised = "none"
    /\ IsListRendering

\* C2 as stated: whatever the service answers to an outbound call, the
\* invocation completes with its normal result; no exception escapes it.
C2_NoExceptionEscapes ==
    (adapter \in {"inlet", "pipe"} /\ Calls # <<>>) => outcome.raised = "none"

\* the auto-fetch scan ran to its end: inlet took the message for no command,
\* auto-fetch is enabled, and no exception cut the loop short
AutoFetchRan ==
    /\ adapter = "inlet" /\ HasText /\ valves.enable_auto_fetch
    /\ FilterClassify(valves, NormText).cmd = "none"
    /\ outcome.raised = "none"

\* the slugs mentioned in the text, letter case put aside
SlugsMentioned == {Lower(x) : x \in ToSet(FindAllSlugs(RawText, 1))}

\* C3 as stated: auto-fetch sends exactly one fetch per distinct slug of the
\* message, however often and in whatever letter case the slug is repeated.
C3_OneFetchPerSlug ==
    AutoFetchRan =>
      /\ Len(Calls) = Cardinality(SlugsMentioned)
      /\ \A x \in SlugsMentioned :
           Cardinality({i \in 1..Len(Calls) :
                          Lower(Calls[i].endpoint) = Lower(NoteEndpoint(x))}) = 1

\* an answer that carries a note: a success status and a JSON object with keys
IsNoteAnswer(r) == r.k = "http" /\ r.code < 400 /\ r.body.t = "dict" /\ r.body.has # {}

\* the fetches of the invocation that resolved to a note
Resolved == {i \in 1..Len(Calls) : IsNoteAnswer(svc[i])}

\* the context block holds the part of every resolved note, one part each
HoldsEveryResolved ==
    /\ Produced[1] = "[Context: Referenced notes]\n\n"
    /\ Cardinality({i \in 1..Len(Produced) : Produced[i] = "\nContent: "})
         = Cardinality(Resolved)
    /\ \A i \in Resolved :
         ContainsText(Produced, ContextPart(svc[i].body, Tail(Calls[i].endpoint)))

\* C4 as stated: when auto-fetch resolves a mentioned slug, the content becomes
\* the context block of every resolved note followed by the message exactly as
\* the user sent it; when none resolves, the content stays as received.
C4_VerbatimOriginal ==
    AutoFetchRan =>
      IF Resolved # {}
      THEN HoldsEveryResolved /\ EndsWith(Produced, <<"\n\n[User message:] ">> \o RawText)
      ELSE outcome.body = request

\* C4 amended: when auto-fetch resolves a mentioned slug, the content becomes
\* the context block of every resolved note followed by the message with its
\* leading and trailing whitespace removed (inner characters and letter case
\* kept); when none resolves, the content stays as received.
C4_TrimmedOriginal ==
    AutoFetchRan =>
      IF Resolved # {}
      THEN HoldsEveryResolved
           /\ EndsWith(Produced, <<"\n\n[User message:] ">> \o Strip(RawText))
      ELSE outcome.body = request

\* C4 witness: a message sent with whitespace around it and in mixed case had
\* a mention resolved
C4_Witness ==
    /\ AutoFetchRan /\ Resolved # {}
    /\ RawText # Strip(RawText) /\ RawText # Lower(RawText)
    /\ outcome.body # request
    /\ EndsWith(Produced, <<"\n\n[User message:] ">> \o Strip(RawText))

\* the slug the user wrote first in the message, in lower case
TypedSlug == Lower(FindAllSlugs(RawText, 1)[1])

\* the message, trimmed and lower-cased, is in full  [/]delete <note-N>
IsDeleteMessage == adapter = "pipe" /\ HasText /\ PipeDeleteMatch(NormText).ok

Answered204 == svc[1].k = "http" /\ svc[1].code = 204

\* C5: for a message that in full matches "delete note-N", pipe sends one
\* DELETE for that slug, returns the delete-confirmation card if and only if
\* the service answered 204, returns an error card naming that slug for every
\* other answer, and never raises.
C5_DeleteOutcome ==
    IsDeleteMessage =>
      /\ outcome.raised = "none"
      /\ Calls = <<CallEv("DELETE", NoteEndpoint(TypedSlug))>>
      /\ ContainsText(Produced, RenderDeleted(TypedSlug)) <=> Answered204
      /\ ~Answered204 =>
           /\ Contains(Produced, "Delete Failed")
           /\ ContainsText(Produced, <<"Could not delete ">> \o TypedSlug \o <<": ">>)

\* C5 witness: the service answered a delete with not-found and pipe returned
\* the error card naming the slug
C5_Witness ==
    /\ IsDeleteMessage /\ RawText # NormText
    /\ svc[1] = Http(404, NotJson)
    /\ outcome.raised = "none"
    /\ ContainsText(Produced, <<"Could not delete ">> \o TypedSlug \o <<": ", "Status 404">>)

\* a read or delete command whose argument is not exactly note-<digits>
MalformedReference(cmd) ==
    \E verb \in {cRead, cDelete} : VerbEnd(cmd, verb, FALSE) > 0 /\ ~VerbSlugFull(cmd, verb).ok

\* C6 as stated: in both adapters a read or delete command with a malformed
\* argument is unrecognized: no request is sent for it and nothing is raised
\* (inlet is taken with auto-fetch off, so that only the command rules act).
C6_MalformedIsUnrecognized ==
    (/\ \/ InletWithCommands /\ ~valves.enable_auto_fetch
        \/ adapter = "pipe"
     /\ HasText /\ MalformedReference(NormText))
    => /\ Calls = <<>>
       /\ outcome.raised = "none"
       /\ adapter = "inlet" => outcome.body = request

\* the command inlet took the message for
InletCommand == FilterClassify(valves, NormText).cmd

IsStatus(e, done) == e.ev = "status" /\ e.done = done

\* the same invocation with a sink supplied (a command uses no set order)
WithSink == Inlet(request, valves, TRUE, <<>>, svc)

\* C7 as stated: for every command inlet handles (list, read, new, search) and
\* a sink supplied, exactly two notifications are emitted: the start one
\* (done = false) before every outbound call, the end one (done = true) last;
\* with no sink the invocation raises nothing the sink would have spared it
\* and rewrites the message to the same content.
C7_TwoNotifications ==
    (adapter = "inlet" /\ HasText /\ InletCommand \in {"list", "read", "new", "search"})
    => IF sink
       THEN /\ Len(Notifications) = 2
            /\ IsStatus(outcome.trace[1], FALSE)
            /\ IsStatus(outcome.trace[Len(outcome.trace)], TRUE)
       ELSE /\ Notifications = <<>>
            /\ outcome.body = WithSink.body
            /\ WithSink.raised = "none" => outcome.raised = "none"

\* C8 as stated: for every payload with messages whose last message matches
\* no rule of pipe's grammar, pipe returns the static fallback text, sends no
\* request and, as for every message, returns a string.
C8_FallbackForUnmatched ==
    (/\ adapter = "pipe" /\ request.messages # <<>>
     /\ ~HasText \/ PipeClassify(NormText).cmd = "none")
    => /\ outcome.raised = "none"
       /\ Calls = <<>>
       /\ Produced # <<>> /\ Produced[1] = "I received: \""

\* inlet may rewrite the message: (a) a command consumed it, or (b) no command
\* did, auto-fetch is enabled and a mentioned slug resolved to a note
CommandConsumed == HasText /\ InletCommand # "none"
MentionResolved ==
    /\ HasText /\ InletCommand = "none" /\ valves.enable_auto_fetch
    /\ Resolved # {}

IsNoteFetch(c) == c.method = "GET" /\ StartsWith(c.endpoint, <<"/api/notes/">>)

\* the payload as the host made it: what it handed to inlet, and what it
\* appended while inlet was suspended
Handed ==
    [request EXCEPT !.messages =
       @ \o [i \in 1..(Len(outcome.body.messages) - Len(request.messages)) |-> Later]]

\* C9 as stated: inlet changes nothing in the payload but the content of the
\* last message, and that only when (a) or (b); in every other case it returns
\* the payload unchanged; and the auto-fetch scan sends no fetch when a command
\* consumed the message or auto-fetch is disabled.
C9_FrameOfInlet ==
    adapter = "inlet" =>
      /\ outcome.body.model = Handed.model
      /\ Len(outcome.body.messages) = Len(Handed.messages)
      /\ \A i \in 1..Len(Handed.messages) :
           /\ outcome.body.messages[i].role = Handed.messages[i].role
           /\ i < Len(Handed.messages) => outcome.body.messages[i] = Handed.messages[i]
      /\ outcome.body # Handed => (CommandConsumed \/ MentionResolved)
      /\ ~(CommandConsumed \/ MentionResolved) =>
           outcome.raised = "none" /\ outcome.body = Handed
      /\ (HasText /\ InletCommand = "none" /\ ~valves.enable_auto_fetch) => Calls = <<>>
      /\ CommandConsumed =>
           /\ Len(Calls) <= 2
           /\ InletCommand \in {"list", "search"} =>
                Len(Calls) = 1 /\ ~IsNoteFetch(Calls[1])
           /\ InletCommand = "read" =>
                Calls = <<CallEv("GET", NoteEndpoint(FilterReadMatch(NormText).arg))>>
           /\ InletCommand = "new" => \A i \in 1..Len(Calls) : ~IsNoteFetch(Calls[i])

\* the literals of the renderers after which a note's title, category, tags
\* or content is written
FieldMarkers ==
    {RenderNoteMd(FullNote, FALSE)[k] : k \in {1, 3, 5, 11}}
    \cup {NoteLineMd(FullNote)[k] : k \in {1, 5, 7}}
    \cup {ContextPart(FullNote, <<"x">>)[k] : k \in {1, 5, 7, 9}}
    \cup {RenderNoteCard(FullNote)[k] : k \in {1, 3, 5, 11}}
    \cup {NoteListItem(FullNote)[k] : k \in {1, 3}}

\* C10 as stated: every renderer writes a placeholder for a missing or empty
\* title, category, tag list or content: never nothing, never the text None.
C10_PlaceholderForEveryField ==
    adapter \in {"inlet", "pipe"} =>
      \A i \in 1..(Len(Produced) - 1) :
        Produced[i] \in FieldMarkers => Produced[i + 1] \notin {"", "None"}

\* the handler interprets the text of the last message as a command
CommandScope == (InletWithCommands \/ adapter = "pipe") /\ HasText

\* the rules of the handler at work, the tests it evaluated for the text cmd,
\* and the rule that matched first
RuleOrder == IF adapter = "pipe" THEN PipeRuleOrder ELSE FilterRuleOrder
RuleMatches(r, cmd) ==
    IF adapter = "pipe" THEN PipeRuleMatches(r, cmd) ELSE FilterRuleMatches(r, cmd)
KeywordsOfRule(r) == IF adapter = "pipe" THEN PipeKeywords(r) ELSE FilterKeywords(r)
RulesTried(cmd) == IF adapter = "pipe" THEN PipeRulesTried(cmd) ELSE FilterRulesTried(cmd)
FirstMatch(tried, cmd) ==
    IF RuleMatches(tried[Len(tried)], cmd) THEN tried[Len(tried)] ELSE "none"

\* what the invocation shows when it handled the message by rule r
HandledAs(r) ==
    CASE r = "help" -> Calls = <<>> /\ Contains(Produced, RenderHelp[1])
      [] r = "list" -> Calls = <<ListCall>>
      [] r = "read" -> /\ Len(Calls) = 1 /\ IsNoteFetch(Calls[1])
                       /\ (adapter = "inlet" /\ sink) => IsStatus(outcome.trace[1], FALSE)
      [] r = "new" -> Calls # <<>> /\ Calls[1] = CallEv("GET", <<"/api/categories">>)
      [] r = "search" -> /\ Len(Calls) = 1 /\ Calls[1].method = "GET"
                         /\ StartsWith(Calls[1].endpoint, <<"/api/notes?">>)
      [] r = "categories" -> Calls = <<CallEv("GET", <<"/api/categories">>)>>
      [] r = "tags" -> Calls = <<CallEv("GET", <<"/api/tags">>)>>
      [] r = "delete" -> Len(Calls) = 1 /\ Calls[1].method = "DELETE"
      [] r = "none" -> /\ Notifications = <<>>
                       /\ \A i \in 1..Len(Calls) : IsNoteFetch(Calls[i])
                       /\ adapter = "pipe" =>
                            Calls = <<>> /\ outcome.raised = "none"
                            /\ Produced[1] = "I received: \""

\* the first matching rule wins, and a message equal to a static keyword goes
\* to that keyword's command while no regex rule matches it
FirstMatchWins(tried, cmd) ==
    LET first == FirstMatch(tried, cmd)
    IN  /\ HandledAs(first)
        /\ \A i \in 1..Len(RuleOrder) :
             cmd \in KeywordsOfRule(RuleOrder[i]) =>
               /\ first = RuleOrder[i]
               /\ \A j \in 1..Len(RuleOrder) :
                    RuleKind(RuleOrder[j]) = "regex" => ~RuleMatches(RuleOrder[j], cmd)

\* C11 as stated: in each adapter the rules are tried in a fixed order in
\* which the keyword rules are checked before the regex rules (whenever a
\* regex rule is tried, every keyword rule has been tried before it), the
\* first matching rule wins, and a message equal to a static keyword goes to
\* that keyword's command and never to a regex rule.
C11_KeywordsBeforeRegex ==
    CommandScope =>
      LET cmd == NormText
          tried == RulesTried(cmd)
      IN  /\ \A i \in 1..Len(tried) :
               RuleKind(tried[i]) = "regex" =>
                 \A k \in 1..Len(RuleOrder) :
                   RuleKind(RuleOrder[k]) = "keyword" =>
                     \E j \in 1..(i - 1) : tried[j] = RuleOrder[k]
          /\ FirstMatchWins(tried, cmd)

\* C11 amended: in each adapter the rules are tried in a fixed order (inlet:
\* list, read, new, search; pipe: help, list, read, search, categories, tags,
\* delete), in which only the list keywords (and pipe's help keywords) are
\* checked before the regex rules; the first matching rule wins, and a message
\* equal to a static keyword goes to that keyword's command and never to a
\* regex rule, since no regex rule matches a static keyword.
C11_FirstMatchWins ==
    CommandScope =>
      LET cmd == NormText
          tried == RulesTried(cmd)
      IN  /\ tried = SubSeq(RuleOrder, 1, Len(tried))
          /\ \A i \in 1..(Len(tried) - 1) : ~RuleMatches(tried[i], cmd)
          /\ RuleOrder \in {<<"list", "read", "new", "search">>,
                            <<"help", "list", "read", "search", "categories", "tags", "delete">>}
          /\ FirstMatchWins(tried, cmd)

\* C11 witness: pipe took a message equal to a keyword that shares its verb
\* with the read rule, a rule tested before the keyword's, for the keyword's
\* command
C11_Witness ==
    /\ adapter = "pipe" /\ HasText
    /\ NormText = cShow \o SP \o cTags /\ RawText # NormText
    /\ RulesTried(NormText) = <<"help", "list", "read", "search", "categories", "tags">>
    /\ Calls = <<CallEv("GET", <<"/api/tags">>)>>
    /\ outcome.raised = "none"

\* the requests of the invocation that change the service's state
Writes == {i \in 1..Len(Calls) : Calls[i].method # "GET"}

\* C12: in every invocation of a handler (inlet, outlet, pipe) of every
\* behaviour, the only request that changes state is a DELETE sent by pipe, at
\* most one, only for a message that in full matches "delete note-N" and for
\* the slug the message names; inlet and outlet send GET requests only, an
\* inlet running beside another one too, and no handler sends a POST.
C12_OnlyDeleteWrites ==
    /\ \A i \in 1..Len(log) :
         (log[i].inv = "B" /\ log[i].e.ev = "call") => log[i].e.method = "GET"
    /\ adapter \in {"inlet", "outlet", "pipe"} =>
      /\ \A i \in 1..Len(Calls) : Calls[i].method \in {"GET", "DELETE"}
      /\ adapter \in {"inlet", "outlet"} => Writes = {}
      /\ Cardinality(Writes) <= 1
      /\ Writes # {} =>
           /\ adapter = "pipe" /\ HasText
           /\ VerbSlugFull(NormText, cDelete).ok
           /\ Calls = <<CallEv("DELETE", NoteEndpoint(VerbSlugFull(NormText, cDelete).arg))>>
           /\ ContainsText(Lower(RawText), VerbSlugFull(NormText, cDelete).arg)

\* C12 witness: pipe sent the one DELETE for the slug of a delete message
\* written in capitals and with whitespace around it, and the service deleted
C12_Witness ==
    /\ adapter = "pipe" /\ HasText
    /\ RawText # NormText /\ VerbSlugFull(NormText, cDelete).ok
    /\ Writes = {1} /\ Calls[1].endpoint = <<"/api/notes/">> \o TypedSlug
    /\ svc[1] = Http(204, NotJson)
    /\ outcome.raised = "none"

====
